---- MODULE Spec2Model ----
(***************************************************************************)
(* Model of the Minesweeper engine of src/src/bombas.tsx: the Grid class   *)
(* (buildLayout, tile, neighborTiles, safeCheckLocation, checkLocation,    *)
(* checkCorners, rotateState, render) and the Minefield handlers that call *)
(* it (checkTile, toggleState, startNewGame, setProperty).                 *)
(*                                                                         *)
(* A Tile object is identified by its point <<x, y>>; layout maps each     *)
(* point to the tile's fields.  Every handler is one atomic action: the    *)
(* program is single-threaded and each handler runs to completion.         *)
(***************************************************************************)
EXTENDS Integers, Sequences, FiniteSets, TLC

VARIABLES
    width,      \* Grid.width
    height,     \* Grid.height
    mines,      \* Grid.mines
    layout,     \* Grid.layout: point -> [checked, mine, state, surroundingMines]
    start,      \* Grid.start
    completed,  \* Grid.completed (Null while in progress)
    victory,    \* Grid.victory
    pc,         \* where the program is: idle between handlers, or inside buildLayout
    i,          \* loop counter of buildLayout's placement loop
    built,      \* history: the layout as the last buildLayout call left it
    last        \* history: the last handler, the tiles it checked in order, its renders

vars == <<width, height, mines, layout, start, completed, victory, pc, i, built, last>>

----------------------------------------------------------------------------
(* Bounds of the model *)

\* largest board area (width * height) the player configures
MaxTiles == 9
\* largest mine count the player configures
MaxMines == 3
\* how many tiles carry a marking (state other than default) at a time
MaxMarks == 1
\* the largest timestamp Date.now() returns
MaxTime == 0

----------------------------------------------------------------------------
(* Values *)

\* null of start / completed (timestamps are >= 0)
Null == 0 - 1
\* undefined, the result of a lookup outside the board
Undefined == << >>

\* Tile literal of buildLayout
freshTile == [checked |-> FALSE, mine |-> FALSE, state |-> "default", surroundingMines |-> 0]

\* the nested loops of buildLayout: a width x height matrix of fresh tiles
freshLayout(w, h) == [p \in (0 .. w - 1) \X (0 .. h - 1) |-> freshTile]

\* the guard of buildLayout: mines > (width * height) / 2, a real division
tooManyMines(w, h, m) == 2 * m > w * h

\* the layout with the fields of tile p replaced (an assignment tile.f = v)
assign(lay, p, fields) == [lay EXCEPT ![p] = fields]

\* the corner test of the placement loop
isCorner(w, h, p) == (p[1] = 0 \/ p[1] = w - 1) /\ (p[2] = 0 \/ p[2] = h - 1)

\* mutant: the corner test is dropped
rejectedNoCorner(lay, w, h, p) == lay[p].mine

\* mutant: the already-a-mine test is dropped
rejectedNoMine(lay, w, h, p) == isCorner(w, h, p)

\* a random pick <<x, y>> that the placement loop retries (i-- ; continue)
rejected(lay, w, h, p) == lay[p].mine \/ isCorner(w, h, p)

\* One iteration of the placement loop with the random pick p, counter k:
\* the layout and counter when the iteration's i++ has run.
pick(lay, w, h, k, p) ==
    IF rejected(lay, w, h, p)
        THEN [layout |-> lay, i |-> k]
        ELSE [layout |-> assign(lay, p, [lay[p] EXCEPT !.mine = TRUE]), i |-> k + 1]

\* The placement loop from counter k on, retried picks elided (a retried
\* pick leaves layout and i as they were): lays are the layouts the loop can
\* hold at counter k.  The set of outcomes; placed = FALSE when every pick
\* is retried, so that the loop never ends.
RECURSIVE placeMines(_, _, _, _, _)
placeMines(lays, w, h, m, k) ==
    IF k >= m
        THEN {[layout |-> lay, placed |-> TRUE] : lay \in lays}
        ELSE LET moving(lay) == {p \in DOMAIN lay : pick(lay, w, h, k, p).i # k}
                 stuck == {lay \in lays : moving(lay) = {}}
                 next == UNION {{pick(lay, w, h, k, p).layout : p \in moving(lay)} :
                                    lay \in lays}
             IN  {[layout |-> lay, placed |-> FALSE] : lay \in stuck}
                     \cup (IF next = {} THEN {} ELSE placeMines(next, w, h, m, k + 1))

----------------------------------------------------------------------------
(* The Grid object the methods work on *)

\* the board sides and the configurations <<width, height, mines>> within the bounds
Dims == 2 .. (MaxTiles \div 2)
Configs == {c \in Dims \X Dims \X (1 .. MaxMines) : c[1] * c[2] <= MaxTiles}

\* the values Date.now() returns
Times == 0 .. MaxTime

\* The grid as a handler finds it: its fields, the value now that Date.now()
\* returns during the handler, and what the handler has done so far (the
\* tiles it checked, in order, and its render signals).
This(time) ==
    [width |-> width, height |-> height, mines |-> mines, layout |-> layout,
     start |-> start, completed |-> completed, victory |-> victory, now |-> time,
     order |-> << >>, renders |-> 0]

\* Grid.render: one render signal
render(this) == [this EXCEPT !.renders = @ + 1]

\* Grid.tile: the tile at a point, undefined outside the board
tile(lay, p) == IF p \in DOMAIN lay THEN p ELSE Undefined

\* the eight offsets of neighborTiles, in the source's order
touching(t) ==
    LET x == t[1]
        y == t[2]
    IN  << <<x - 1, y - 1>>, <<x, y - 1>>, <<x + 1, y - 1>>,
           <<x - 1, y>>, <<x + 1, y>>,
           <<x - 1, y + 1>>, <<x, y + 1>>, <<x + 1, y + 1>> >>

\* Grid.neighborTiles: the lookups of the eight offsets, filtered; the
\* callback filter is a function from the lookups' results to BOOLEAN
neighborTiles(lay, t, filter) ==
    LET looked == [k \in 1 .. 8 |-> tile(lay, touching(t)[k])]
    IN  SelectSeq(looked, LAMBDA n : filter[n])

\* mutant: the chord reveals marked neighbours too
chordFilterAnyState(lay, n) == n # Undefined /\ ~lay[n].checked

\* mutant: the chord skips question tiles only, and reveals marked ones
chordFilterNotQuestion(lay, n) == n # Undefined /\ ~lay[n].checked /\ lay[n].state # "question"

\* the filter of the chord path
chordFilter(lay, n) == n # Undefined /\ ~lay[n].checked /\ lay[n].state = "default"

\* mutant: the cascade stops at tiles the player marked
revealFilterDefaultOnly(lay, n) ==
    n # Undefined /\ (lay[n].mine \/ (~lay[n].checked /\ lay[n].state = "default"))

\* mutant: the first reveal leaves checked mines out of its neighbours
revealFilterUnchecked(lay, n) == n # Undefined /\ ~lay[n].checked

\* the filter of the first-reveal path
revealFilter(lay, n) == n # Undefined /\ (lay[n].mine \/ ~lay[n].checked)

\* the two arrow functions checkLocation hands to neighborTiles
chordCallback(lay) == [n \in DOMAIN lay \cup {Undefined} |-> chordFilter(lay, n)]

revealCallback(lay) == [n \in DOMAIN lay \cup {Undefined} |-> revealFilter(lay, n)]

\* a caller's arrow function that accepts every argument: () => true
acceptAll(lay) == [n \in DOMAIN lay \cup {Undefined} |-> TRUE]

\* the board scan of the completion check
mysteries(lay) == \E p \in DOMAIN lay : ~lay[p].checked /\ ~lay[p].mine

RECURSIVE checkLocation(_, _, _)

\* mutant: a tile that is checked already is processed once more
safeCheckLocationAgain(this, t) ==
    IF ~this.layout[t].checked THEN checkLocation(this, t, TRUE)
    ELSE [this EXCEPT !.order = Append(@, t)]

\* Grid.safeCheckLocation
safeCheckLocation(this, t) ==
    IF ~this.layout[t].checked THEN checkLocation(this, t, TRUE) ELSE this

\* neighbors.forEach(tile => this.safeCheckLocation(tile))
RECURSIVE forEachSafe(_, _)
forEachSafe(this, ns) ==
    IF ns = << >> THEN this
    ELSE CHOOSE done \in {forEachSafe(next, Tail(ns)) :
                              next \in {safeCheckLocation(this, Head(ns))}} : TRUE

\* Grid.checkLocation
checkLocation(this, t, skipRender) ==
    IF this.layout[t].checked
        THEN render(forEachSafe(this, neighborTiles(this.layout, t, chordCallback(this.layout))))
        ELSE
            LET neighbors == neighborTiles(this.layout, t, revealCallback(this.layout))
                surroundingMines ==
                    Len(SelectSeq(neighbors, LAMBDA n : this.layout[n].mine))
                marked ==
                    [this EXCEPT
                        !.layout = assign(@, t, [@[t] EXCEPT !.checked = TRUE]),
                        !.order = Append(@, t)]
            IN  IF marked.layout[t].mine
                    THEN render([marked EXCEPT !.completed = marked.now])
                    ELSE
                        LET swept ==
                                IF surroundingMines = 0
                                    THEN forEachSafe(marked, neighbors)
                                    ELSE [marked EXCEPT
                                            !.layout = assign(@, t,
                                                [@[t] EXCEPT !.surroundingMines =
                                                                 surroundingMines])]
                        IN  IF ~skipRender
                                THEN render(IF ~mysteries(swept.layout)
                                                THEN [swept EXCEPT !.completed = swept.now,
                                                                   !.victory = TRUE]
                                                ELSE swept)
                                ELSE swept

\* Grid.checkCorners
checkCorners(this) ==
    LET w  == this.width
        h  == this.height
        c1 == safeCheckLocation(this, tile(this.layout, <<0, 0>>))
        c2 == safeCheckLocation(c1, tile(c1.layout, <<0, h - 1>>))
        c3 == safeCheckLocation(c2, tile(c2.layout, <<w - 1, 0>>))
    IN  safeCheckLocation(c3, tile(c3.layout, <<w - 1, h - 1>>))

\* mutant: rotating a tile's state also hides the tile again
rotateStateUnchecks(this, t) ==
    LET s == this.layout[t].state
        n == IF s = "default" THEN "marked"
             ELSE IF s = "marked" THEN "question"
             ELSE IF s = "question" THEN "default"
             ELSE s
    IN  render([this EXCEPT !.layout = assign(@, t, [@[t] EXCEPT !.state = n,
                                                                 !.checked = FALSE])])

\* mutant: question is left out of the cycle (marked goes back to default)
rotateStateTwoStates(this, t) ==
    LET s == this.layout[t].state
        n == IF s = "default" THEN "marked" ELSE "default"
    IN  render([this EXCEPT !.layout = assign(@, t, [@[t] EXCEPT !.state = n])])

\* Grid.rotateState
rotateState(this, t) ==
    LET s == this.layout[t].state
        n == IF s = "default" THEN "marked"
             ELSE IF s = "marked" THEN "question"
             ELSE IF s = "question" THEN "default"
             ELSE s
    IN  render([this EXCEPT !.layout = assign(@, t, [@[t] EXCEPT !.state = n])])

\* mutant: buildLayout returns without resetting completed and victory
buildLayoutNoReset(this) ==
    LET w     == this.width
        h     == this.height
        fresh == [this EXCEPT !.layout = freshLayout(w, h)]
    IN  IF tooManyMines(w, h, this.mines)
            THEN {[grid |-> fresh, result |-> "throw"]}
            ELSE {IF r.placed
                      THEN [grid |-> [fresh EXCEPT !.layout = r.layout,
                                                   !.start = fresh.now],
                            result |-> "ok"]
                      ELSE [grid |-> [fresh EXCEPT !.layout = r.layout],
                            result |-> "hang"] :
                  r \in placeMines({fresh.layout}, w, h, this.mines, 0)}

\* Grid.buildLayout: the set of its outcomes, each the grid it leaves and
\* how it ended: "ok" (returned), "throw" (the Error of the mines guard),
\* "hang" (the placement loop retries every pick for ever).
buildLayout(this) ==
    LET w     == this.width
        h     == this.height
        fresh == [this EXCEPT !.layout = freshLayout(w, h)]
    IN  IF tooManyMines(w, h, this.mines)
            THEN {[grid |-> fresh, result |-> "throw"]}
            ELSE {IF r.placed
                      THEN [grid |-> [fresh EXCEPT !.layout = r.layout,
                                                   !.start = fresh.now,
                                                   !.completed = Null,
                                                   !.victory = FALSE],
                            result |-> "ok"]
                      ELSE [grid |-> [fresh EXCEPT !.layout = r.layout],
                            result |-> "hang"] :
                  r \in placeMines({fresh.layout}, w, h, this.mines, 0)}

\* startNewGame: buildLayout, checkCorners, render; the Error of buildLayout
\* ends the handler before checkCorners
startNewGame(this) ==
    {IF b.result = "ok"
         THEN [grid |-> render(checkCorners(b.grid)), built |-> b.grid.layout,
               result |-> "ok"]
         ELSE [grid |-> b.grid, built |-> b.grid.layout, result |-> b.result] :
     b \in buildLayout(this)}

\* The outcomes of startNewGame for every grid within the bounds.
\* buildLayout overwrites this.layout before it reads it, so the outcome
\* depends on the other fields only and the layout is left out of the key.
\* (@@ makes TLC tabulate the function once.)
newGames ==
    [this \in {g \in [width : Dims, height : Dims, mines : 1 .. MaxMines,
                      layout : {<< >>}, start : Times \cup {Null},
                      completed : Times \cup {Null}, victory : BOOLEAN, now : Times,
                      order : {<< >>}, renders : {0}] :
                  g.width * g.height <= MaxTiles}
        |-> startNewGame(this)] @@ << >>

----------------------------------------------------------------------------
(* State machine *)

\* the tiles with a marking
Marked(lay) == {p \in DOMAIN lay : lay[p].state # "default"}

\* new Grid().render(): the constructor (buildLayout, checkCorners) and the
\* first render.  The default 16 x 30 board with 99 mines is outside the
\* bounds; setProperty reaches every configuration from it, so the model
\* starts from any configuration the constructor completes on.
Init ==
    \E c \in Configs, time \in Times :
        /\ c[3] > 1
        /\ \E b \in buildLayout([width |-> c[1], height |-> c[2], mines |-> c[3],
                                 layout |-> << >>, start |-> Null, completed |-> Null,
                                 victory |-> FALSE, now |-> time,
                                 order |-> << >>, renders |-> 0]) :
              /\ b.result = "ok"
              /\ \E g \in {render(checkCorners(b.grid))} :
                     /\ width = g.width
                     /\ height = g.height
                     /\ mines = g.mines
                     /\ layout = g.layout
                     /\ start = g.start
                     /\ completed = g.completed
                     /\ victory = g.victory
                     /\ built = b.grid.layout
                     /\ last = [op |-> "constructor", result |-> "ok", tile |-> Undefined,
                                order |-> g.order, renders |-> g.renders]
        /\ pc = "idle"
        /\ i = 0

\* the grid's fields after a handler
Becomes(g) ==
    /\ width' = g.width
    /\ height' = g.height
    /\ mines' = g.mines
    /\ layout' = g.layout
    /\ start' = g.start
    /\ completed' = g.completed
    /\ victory' = g.victory

\* startNewGame run on the grid this
NewGame(this) ==
    \E r \in newGames[[this EXCEPT !.layout = << >>]] :
        /\ Becomes(r.grid)
        /\ built' = r.built
        /\ pc' = IF r.result = "hang" THEN "hung" ELSE "idle"
        /\ i' = IF r.result = "hang" THEN Cardinality({p \in DOMAIN r.built : r.built[p].mine})
                                     ELSE 0
        /\ last' = [op |-> "startNewGame", result |-> r.result, tile |-> Undefined,
                    order |-> r.grid.order, renders |-> r.grid.renders]

\* setProperty(prop) with the parsed input value
SetProperty(prop, value) ==
    /\ pc = "idle"
    /\ IF value > 1
           THEN \E time \in Times : NewGame([This(time) EXCEPT ![prop] = value])
           ELSE UNCHANGED vars

\* the modal's button or the "New game" row, shown once the game is completed
ClickNewGame ==
    /\ pc = "idle"
    /\ completed # Null
    /\ \E time \in Times : NewGame(This(time))

\* checkTile(tile) without the meta key: grid.checkLocation(tile)
CheckTile(t) ==
    /\ pc = "idle"
    /\ t \in DOMAIN layout
    /\ \E time \in Times :
          \E g \in {checkLocation(This(time), t, FALSE)} :
              /\ Becomes(g)
              /\ last' = [op |-> "checkLocation", result |-> "ok", tile |-> t,
                          order |-> g.order, renders |-> g.renders]
    /\ UNCHANGED <<pc, i, built>>

\* toggleState(tile), or checkTile(tile) with the meta key: grid.rotateState(tile)
ToggleState(t) ==
    /\ pc = "idle"
    /\ t \in DOMAIN layout
    /\ layout[t].state = "default" => Cardinality(Marked(layout)) < MaxMarks
    /\ \E g \in {rotateState(This(0), t)} :
          /\ Becomes(g)
          /\ last' = [op |-> "rotateState", result |-> "ok", tile |-> t,
                      order |-> g.order, renders |-> g.renders]
    /\ UNCHANGED <<pc, i, built>>

Next ==
    \/ \E value \in 1 .. (MaxTiles \div 2) :
          /\ value * height <= MaxTiles
          /\ SetProperty("width", value)
    \/ \E value \in 1 .. (MaxTiles \div 2) :
          /\ width * value <= MaxTiles
          /\ SetProperty("height", value)
    \/ \E value \in 1 .. MaxMines : SetProperty("mines", value)
    \/ ClickNewGame
    \/ \E t \in DOMAIN layout : CheckTile(t)
    \/ \E t \in DOMAIN layout : ToggleState(t)

Spec == Init /\ [][Next]_vars

----------------------------------------------------------------------------
(* buildLayout step by step: the guard, the placement loop one random pick *)
(* at a time, and the reset of the timing properties                       *)

\* the grid a constructor or handler starts from, for configuration c
blank(c, time) ==
    [width |-> c[1], height |-> c[2], mines |-> c[3], layout |-> << >>,
     start |-> Null, completed |-> Null, victory |-> FALSE, now |-> time,
     order |-> << >>, renders |-> 0]

\* buildLayout entered on any configuration; the matrix of fresh tiles is built
InitBuild ==
    \E c \in Configs :
        /\ width = c[1]
        /\ height = c[2]
        /\ mines = c[3]
        /\ layout = freshLayout(c[1], c[2])
        /\ start = Null
        /\ completed = Null
        /\ victory = FALSE
        /\ pc = "guard"
        /\ i = 0
        /\ built = << >>
        /\ last = [op |-> "buildLayout", result |-> "running", tile |-> Undefined,
                   order |-> << >>, renders |-> 0]

\* if (this.mines > (this.width * this.height) / 2) throw
Guard ==
    /\ pc = "guard"
    /\ pc' = IF tooManyMines(width, height, mines) THEN "thrown" ELSE "placing"
    /\ UNCHANGED <<width, height, mines, layout, start, completed, victory, i, built, last>>

\* one iteration of the placement loop, Math.random() giving the point p
Pick(p) ==
    /\ pc = "placing"
    /\ i < mines
    /\ layout' = pick(layout, width, height, i, p).layout
    /\ i' = pick(layout, width, height, i, p).i
    /\ UNCHANGED <<width, height, mines, start, completed, victory, pc, built, last>>

\* the loop ends: the timing/completion properties are reset
Finish(time) ==
    /\ pc = "placing"
    /\ i >= mines
    /\ start' = time
    /\ completed' = Null
    /\ victory' = FALSE
    /\ pc' = "returned"
    /\ built' = layout
    /\ UNCHANGED <<width, height, mines, layout, i, last>>

PickSome == \E p \in DOMAIN layout : Pick(p)

FinishSome == \E time \in Times : Finish(time)

NextBuild ==
    \/ Guard
    \/ PickSome
    \/ FinishSome

\* Fair random choice: a pick that moves the loop on is not avoided for ever.
SpecBuild ==
    /\ InitBuild
    /\ [][NextBuild]_vars
    /\ WF_vars(Guard)
    /\ WF_vars(PickSome)
    /\ WF_vars(FinishSome)

----------------------------------------------------------------------------
(* checkLocation as a function of the board: the boards buildLayout returns *)
(* (before checkCorners) and the single-mine board of the cascade test,     *)
(* with the player's clicks and markings applied to them                    *)

\* the board of the cascade test: 5 x 5, one mine at <<4, 4>>, nothing checked
ExampleLayout ==
    [p \in (0 .. 4) \X (0 .. 4) |->
        IF p = <<4, 4>> THEN [freshTile EXCEPT !.mine = TRUE] ELSE freshTile]

\* the cascade test's board as a grid
exampleGrid(time) ==
    [blank(<<5, 5, 1>>, time) EXCEPT !.layout = ExampleLayout, !.start = time]

\* the boards checkLocation is applied to
revealBoards ==
    UNION {{b.grid : b \in {r \in buildLayout(blank(c, time)) : r.result = "ok"}} :
               c \in Configs, time \in Times}
        \cup {exampleGrid(time) : time \in Times}

\* the board with no tile marked, or one tile rotated to marked or to question
markings(g) ==
    {g} \cup UNION {{rotateState(g, t), rotateState(rotateState(g, t), t)} :
                        t \in {p \in DOMAIN g.layout : MaxMarks > 0}}

InitReveal ==
    /\ \E b \in revealBoards :
          \E g \in markings(b) :
              /\ width = g.width
              /\ height = g.height
              /\ mines = g.mines
              /\ layout = g.layout
              /\ start = g.start
              /\ built = b.layout
    /\ completed = Null
    /\ victory = FALSE
    /\ pc = "idle"
    /\ i = 0
    /\ last = [op |-> "buildLayout", result |-> "ok", tile |-> Undefined,
               order |-> << >>, renders |-> 0]

\* how many tiles are checked already when the player clicks a tile
MaxChecked == 1

\* the player reveals an unchecked tile
RevealTile(t) ==
    /\ ~layout[t].checked
    /\ Cardinality({p \in DOMAIN layout : layout[p].checked}) <= MaxChecked
    /\ CheckTile(t)

\* the player clicks a checked tile again (a chord)
ChordTile(t) ==
    /\ layout[t].checked
    /\ Cardinality({p \in DOMAIN layout : layout[p].checked}) <= MaxChecked
    /\ CheckTile(t)

NextReveal ==
    \/ \E t \in DOMAIN layout : RevealTile(t)
    \/ \E t \in DOMAIN layout : ChordTile(t)

SpecReveal == InitReveal /\ [][NextReveal]_vars

----------------------------------------------------------------------------
(* Vocabulary of the properties: what a board shows, read off the layout    *)
(* without the methods of Grid                                              *)

Checked(lay) == {p \in DOMAIN lay : lay[p].checked}

MineTiles(lay) == {p \in DOMAIN lay : lay[p].mine}

SafeTiles(lay) == DOMAIN lay \ MineTiles(lay)

MineChecked(lay) == Checked(lay) \cap MineTiles(lay) # {}

AllSafeChecked(lay) == SafeTiles(lay) \subseteq Checked(lay)

Corners(w, h) == {<<0, 0>>, <<0, h - 1>>, <<w - 1, 0>>, <<w - 1, h - 1>>}

\* the tiles of the board that touch t
Adj(lay, t) ==
    {p \in DOMAIN lay : p # t /\ p[1] - t[1] \in {0 - 1, 0, 1} /\ p[2] - t[2] \in {0 - 1, 0, 1}}

\* the number of mines that touch t
MinesAround(lay, t) == Cardinality(Adj(lay, t) \cap MineTiles(lay))

\* The flood region of t: the least set that holds t and, with every tile of
\* it that no mine touches, the tiles that touch that tile.
RECURSIVE FloodFrom(_, _)
FloodFrom(lay, S) ==
    LET grown == S \cup UNION {Adj(lay, p) : p \in {q \in S : MinesAround(lay, q) = 0}}
    IN  IF grown = S THEN S ELSE FloodFrom(lay, grown)

Flood(lay, t) == FloodFrom(lay, {t})

\* the last handler was a construction of a game that buildLayout completed
JustBuilt == last.op \in {"constructor", "startNewGame"} /\ last.result = "ok"

----------------------------------------------------------------------------
(* Properties *)

\* C1: a player's checkLocation call (first reveal or chord) that checks the
\* last unchecked non-mine tile, with no mine checked, returns with completed
\* non-null and victory true.
LastSafeRevealWins ==
    ( /\ last.op = "checkLocation"
      /\ \E k \in 1 .. Len(last.order) : ~layout[last.order[k]].mine
      /\ AllSafeChecked(layout)
      /\ ~MineChecked(layout) )
        => (completed # Null /\ victory)

\* C2: between operations completed is non-null exactly when a mine tile is
\* checked or every non-mine tile is checked.
CompletedIffOver ==
    pc = "idle" =>
        ((completed # Null) <=> (MineChecked(layout) \/ AllSafeChecked(layout)))

\* C3: whenever a mine tile is checked, completed is non-null and victory is
\* false.
MineCheckedIsLoss ==
    (pc = "idle" /\ MineChecked(layout)) => (completed # Null /\ ~victory)

\* C4: in a player's checkLocation call no tile becomes checked after a mine
\* tile became checked: a mine is the last tile the call checks.
RevealStopsAtMine ==
    last.op = "checkLocation" =>
        \A k \in 1 .. Len(last.order) :
            layout[last.order[k]].mine => k = Len(last.order)

\* C5: a new game that fails with the configuration error leaves layout,
\* start, completed and victory as they were before the call.
ThrowKeepsGame ==
    [][(last'.op = "startNewGame" /\ last'.result = "throw")
          => (layout' = layout /\ start' = start /\ completed' = completed
                /\ victory' = victory)]_vars

\* C6: under fair random choice buildLayout terminates for every
\* configuration with width, height >= 2 and mines >= 1: it returns with the
\* mines placed or throws the configuration error.
BuildLayoutTerminates == <>(pc = "thrown" \/ pc = "returned")

\* C7: after a successful buildLayout no corner tile is a mine, and right
\* after construction (buildLayout, checkCorners) the four corners are
\* checked and no mine tile is checked.
CornersSafeAndChecked ==
    JustBuilt =>
        /\ Corners(width, height) \cap MineTiles(built) = {}
        /\ Corners(width, height) \subseteq Checked(layout)
        /\ ~MineChecked(layout)

CornersSafeAndCheckedWitness ==
    /\ last.op = "startNewGame"
    /\ last.result = "ok"
    /\ width = 3
    /\ height = 3
    /\ \E c \in Corners(width, height) : MinesAround(built, c) = 2
    /\ Corners(width, height) \subseteq Checked(layout)

\* C8: after a successful buildLayout the layout is width x height, exactly
\* `mines` of its tiles are mines, and every tile is unchecked, with state
\* default and surroundingMines 0.
ExactlyMinesPlaced ==
    JustBuilt =>
        /\ DOMAIN built = (0 .. width - 1) \X (0 .. height - 1)
        /\ Cardinality(MineTiles(built)) = mines
        /\ \A p \in DOMAIN built :
              /\ ~built[p].checked
              /\ built[p].state = "default"
              /\ built[p].surroundingMines = 0

ExactlyMinesPlacedWitness ==
    /\ JustBuilt
    /\ mines = MaxMines
    /\ Cardinality(MineTiles(built)) = MaxMines
    /\ Cardinality(DOMAIN built) = MaxTiles

\* C9: a player's checkLocation on an unchecked non-mine tile t checks
\* exactly the flood region of t; each tile it checks gets its mine count
\* (zero inside the region, non-zero on the boundary, which is not
\* expanded), and no mine becomes checked.  On the 5 x 5 board with its one
\* mine at (4,4) a reveal at (0,0) checks the 24 safe tiles, gives (3,3),
\* (3,4), (4,3) the count 1 and leaves (4,4) unchecked.
RevealChecksFloodRegion ==
    [][(last'.op = "checkLocation" /\ ~layout[last'.tile].checked
            /\ ~layout[last'.tile].mine)
          => LET t == last'.tile
                 region == Flood(layout, t)
             IN  /\ Checked(layout') = Checked(layout) \cup region
                 /\ \A p \in region \ Checked(layout) :
                       layout'[p].surroundingMines = MinesAround(layout, p)
                 /\ \A p \in DOMAIN layout \ (region \ Checked(layout)) :
                       layout'[p] = layout[p]
                 /\ MineTiles(layout') \cap Checked(layout')
                        = MineTiles(layout) \cap Checked(layout)
                 /\ (width = 5 /\ height = 5 /\ MineTiles(layout) = {<<4, 4>>}
                        /\ Checked(layout) = {} /\ t = <<0, 0>>)
                      => /\ Checked(layout') = DOMAIN layout \ {<<4, 4>>}
                         /\ \A p \in {<<3, 3>>, <<3, 4>>, <<4, 3>>} :
                               layout'[p].surroundingMines = 1
                         /\ ~layout'[<<4, 4>>].checked]_vars

RevealChecksFloodRegionWitness ==
    /\ last.op = "checkLocation"
    /\ ~layout[last.tile].mine
    /\ Len(last.order) >= 3
    /\ \E k \in 1 .. Len(last.order) : layout[last.order[k]].surroundingMines > 0
    /\ \E p \in SafeTiles(layout) : ~layout[p].checked
    /\ \E p \in MineTiles(layout) : layout[p].checked

\* C10: checkLocation (or safeCheckLocation) on a checked non-mine tile with
\* no unchecked neighbour in state default changes no tile and leaves
\* completed and victory as they were; checkLocation renders once and does
\* nothing else.
ChordWithNothingToReveal ==
    [][(last'.op = "checkLocation" /\ layout[last'.tile].checked
            /\ ~layout[last'.tile].mine
            /\ \A n \in Adj(layout, last'.tile) :
                  layout[n].checked \/ layout[n].state # "default")
          => /\ layout' = layout
             /\ completed' = completed
             /\ victory' = victory
             /\ last'.order = << >>
             /\ last'.renders = 1
             /\ \A time \in Times :
                   safeCheckLocation(This(time), last'.tile) = This(time)]_vars

ChordWithNothingToRevealWitness ==
    /\ last.op = "checkLocation"
    /\ layout[last.tile].checked
    /\ ~layout[last.tile].mine
    /\ last.order = << >>
    /\ last.renders = 1
    /\ \E n \in Adj(layout, last.tile) : ~layout[n].checked /\ layout[n].state = "marked"

\* C11: rotateState(tile) moves tile.state one step along default -> marked
\* -> question -> default, three successive calls on a tile restore its
\* state, and the call changes nothing else: every tile's checked, mine and
\* surroundingMines, every other tile's state, completed and victory are as
\* before.
RotateStateCyclesOneTile ==
    [][last'.op = "rotateState"
          => LET t == last'.tile
                 s == layout[t].state
                 thrice == rotateState(rotateState(rotateState(This(0), t), t), t)
             IN  /\ layout'[t].state = (IF s = "default" THEN "marked"
                                         ELSE IF s = "marked" THEN "question"
                                         ELSE "default")
                 /\ layout' = [layout EXCEPT ![t] = [layout[t] EXCEPT !.state = layout'[t].state]]
                 /\ thrice.layout = layout
                 /\ completed' = completed
                 /\ victory' = victory
                 /\ start' = start]_vars

RotateStateCyclesOneTileWitness ==
    /\ last.op = "rotateState"
    /\ layout[last.tile].state = "default"
    /\ layout[last.tile].checked
    /\ completed # Null

GameOverIsFinal ==
    [][(completed # Null /\ last'.op = "checkLocation")
          => /\ completed' = completed
             /\ victory' = victory
             /\ Checked(layout') = Checked(layout)]_vars

\* C14: between operations every checked non-mine tile has surroundingMines
\* equal to the number of mines among its neighbours on the board (checked
\* mines counted too), and every tile that is unchecked or a mine has
\* surroundingMines = 0.
SurroundingMinesIsCount ==
    \A p \in DOMAIN layout :
        layout[p].surroundingMines =
            (IF layout[p].checked /\ ~layout[p].mine THEN MinesAround(layout, p) ELSE 0)

SurroundingMinesIsCountWitness ==
    /\ last.op = "checkLocation"
    /\ Len(last.order) = 1
    /\ layout[last.tile].surroundingMines = 2
    /\ \E n \in Adj(layout, last.tile) : layout[n].mine /\ layout[n].checked
    /\ \E n \in Adj(layout, last.tile) : layout[n].mine /\ ~layout[n].checked

\* C15: between operations every checked non-mine tile with no mine among
\* its neighbours has all its neighbours on the board checked, whatever
\* marking (marked, question) the player gave them: a marking never blocks
\* the cascade.
ZeroTilesAreExpanded ==
    \A p \in DOMAIN layout :
        (layout[p].checked /\ ~layout[p].mine /\ MinesAround(layout, p) = 0)
            => Adj(layout, p) \subseteq Checked(layout)

ZeroTilesAreExpandedWitness ==
    /\ last.op = "checkLocation"
    /\ MinesAround(layout, last.tile) = 0
    /\ \E k \in 2 .. Len(last.order) :
          /\ layout[last.order[k]].state # "default"
          /\ \E j \in 1 .. (k - 1) :
                /\ MinesAround(layout, last.order[j]) = 0
                /\ last.order[k] \in Adj(layout, last.order[j])

\* C16: a checkLocation call terminates, and within the call each tile runs
\* the first-reveal path at most once: the tiles it reveals are distinct,
\* each was unchecked when the call started, so their number is at most the
\* number of tiles unchecked at the start, and they are the tiles that
\* became checked.
RevealsEachTileOnce ==
    [][last'.op = "checkLocation"
          => LET o == last'.order
             IN  /\ \A j \in 1 .. Len(o) : \A k \in 1 .. Len(o) : o[j] = o[k] => j = k
                 /\ \A k \in 1 .. Len(o) : ~layout[o[k]].checked
                 /\ Len(o) <= Cardinality(DOMAIN layout \ Checked(layout))
                 /\ Checked(layout') = Checked(layout) \cup {o[k] : k \in 1 .. Len(o)}]_vars

RevealsEachTileOnceWitness ==
    /\ last.op = "checkLocation"
    /\ width = 5
    /\ height = 5
    /\ Len(last.order) = 24
    /\ ~layout[<<4, 4>>].checked

\* C17: a player's checkLocation call, first reveal or chord, emits the
\* render signal exactly once, however many tiles it reveals and whatever
\* their kind.
RendersOncePerCall == last.op = "checkLocation" => last.renders = 1

\* the neighbours of t a chord on t hands to safeCheckLocation
ChordTargets(lay, t) == {n \in Adj(lay, t) : ~lay[n].checked /\ lay[n].state = "default"}

\* what a first reveal of n checks: n alone if it is a mine, else its flood region
RevealRegion(lay, n) == IF lay[n].mine THEN {n} ELSE Flood(lay, n)

NeighborTilesOnBoard ==
    \A t \in DOMAIN layout :
        \A filter \in {acceptAll(layout), chordCallback(layout), revealCallback(layout)} :
            LET r == neighborTiles(layout, t, filter)
            IN  /\ \A k \in 1 .. Len(r) : r[k] \in Adj(layout, t)
                /\ Len(r) <= Cardinality(Adj(layout, t))

\* C20: within one game (no regeneration) a checkLocation or rotateState
\* call changes no tile's mine flag and never turns a tile's checked flag
\* from true to false.
MineFixedCheckedMonotonic ==
    [][last'.op \in {"checkLocation", "rotateState"}
          => /\ DOMAIN layout' = DOMAIN layout
             /\ \A p \in DOMAIN layout :
                   /\ layout'[p].mine = layout[p].mine
                   /\ layout[p].checked => layout'[p].checked]_vars

MineFixedCheckedMonotonicWitness ==
    /\ last.op = "checkLocation"
    /\ completed # Null
    /\ MineChecked(layout)
    /\ \E p \in MineTiles(layout) : ~layout[p].checked
    /\ Len(last.order) >= 2
    /\ Marked(layout) # {}

====
